---- MODULE Spec2Model ----
(***************************************************************************)
(* Model of playwright_version/scrape_non_profits_concurrent.py:           *)
(*   - the search-term enumeration kept inline in the search loop          *)
(*     (search_word, lines 189-191 and 269-275);                           *)
(*   - one session per business type (process_business_type_session);      *)
(*   - the report writer save_result and its file_lock;                    *)
(*   - the orchestration in process_non_profits (asyncio.gather).          *)
(*                                                                         *)
(* A search term is a sequence of code points: 'a' is 97 and 'z' is 122,   *)
(* so that chr(ord(c) + 1) is c + 1 and a letter pushed past 'z' shows.    *)
(***************************************************************************)
EXTENDS Integers, Sequences, FiniteSets, TLC

\* ord('a'), ord('z'): the letters the loop starts from and rolls over at.
OrdA == 97
OrdZ == 122
Letters == OrdA..OrdZ

\* Bounds of the model.
EnumLen == 3      \* longest term the enumerator specification starts from
MaxLen == 2       \* the registry reports a full page only for shorter terms
CountCap == 27    \* the advance counter is exact below this value
NumWriters == 2   \* concurrent deliveries in the sink specification
TriesCap == 2     \* the page-size entries are counted exactly below this value
MaxBrowsers == 2  \* largest browser_pool_size the scraper is built with

\* MAX_CONCURRENT (line 26), passed as max_concurrent at line 387.
MAX_CONCURRENT == 1

\* len(business_types): one session per business type, indexed from 0.
NumSessions == 3
Sessions == 0..(NumSessions - 1)

\* for attempt in range(5)
MaxTypeAttempts == 5

\* All terms of length 1..n.
Terms(n) == UNION {[1..k -> Letters] : k \in 1..n}

\* "".join(search_word) keeps the letters in order: the term and the list
\* are the same sequence.
Join(w) == w

\* Python's string comparison u < v on terms.
RECURSIVE LexLess(_, _)
LexLess(u, v) ==
    IF v = <<>> THEN FALSE
    ELSE IF u = <<>> THEN TRUE
    ELSE IF Head(u) # Head(v) THEN Head(u) < Head(v)
    ELSE LexLess(Tail(u), Tail(v))

IsStrictPrefix(u, v) ==
    /\ Len(u) < Len(v)
    /\ SubSeq(v, 1, Len(u)) = u

AllZ(w) == \A i \in 1..Len(w) : w[i] = OrdZ

\* A slip in the carry loop: a single trailing 'z' is popped (if for while).
PopZOnce(w) ==
    IF Len(w) > 0 /\ w[Len(w)] = OrdZ
    THEN SubSeq(w, 1, Len(w) - 1)
    ELSE w

\* while len(search_word) > 0 and search_word[-1] == 'z': search_word.pop()
RECURSIVE PopZ(_)
PopZ(w) ==
    IF Len(w) > 0 /\ w[Len(w)] = OrdZ
    THEN PopZ(SubSeq(w, 1, Len(w) - 1))
    ELSE w

\* A slip in the increment: the letter after next is taken.
BumpSkip(w) ==
    IF Len(w) > 0
    THEN [w EXCEPT ![Len(w)] = w[Len(w)] + 2]
    ELSE w

\* if len(search_word) > 0: search_word[-1] = chr(ord(search_word[-1]) + 1)
Bump(w) ==
    IF Len(w) > 0
    THEN [w EXCEPT ![Len(w)] = w[Len(w)] + 1]
    ELSE w

\* A slip in the increment: the letter is bumped before the trailing 'z's
\* are dropped, so 'z' is pushed past the alphabet.
BumpThenPop(w) == PopZ(Bump(w))

\* A slip: a term of 'z' letters only is not left.
IncrementKeepsLast(w) == IF AllZ(w) THEN w ELSE Bump(PopZ(w))

\* The else branch of lines 271-275.
Increment(w) == Bump(PopZ(w))

\* A slip in the descent: the new level starts at 'b'.
DescendB(w) == Append(w, OrdA + 1)

\* search_word.append('a')
Descend(w) == Append(w, OrdA)

\* A slip: a saturated term is advanced like any other.
AdvanceFlat(w, saturated) == Increment(w)

\* Lines 269-275: the next search_word after a search of w whose page was
\* (saturated) or was not classified as full.
Advance(w, saturated) ==
    IF saturated THEN Descend(w) ELSE Increment(w)

(***************************************************************************)
(* What page.content() can return after a search, by what the code looks   *)
(* for in it: result boxes with a pager banner that does ("full") or does  *)
(* not ("results") hold the token "200", one of the two no-result          *)
(* messages, or none of these (the wait timed out).                        *)
(***************************************************************************)
PageKinds == {"results", "full", "noresults", "nomatches", "blank"}
UnsaturatedPages == PageKinds \ {"full"}

\* soup.find('div', attrs={"class": "appPagerBanner"}) is not None
HasBanner(html) == html \in {"results", "full"}

\* "200" in result_blocks.text.split(" ")
BannerHas200(html) == html = "full"

\* marker in html_content
Contains(html, marker) ==
    \/ marker = "No results found" /\ html = "noresults"
    \/ marker = "No matches found" /\ html = "nomatches"

\* Lines 260-267: the AttributeError of a missing banner is caught and
\* leaves businesses_count_200 False.
businesses_count_200(html) ==
    IF HasBanner(html) THEN BannerHas200(html) ELSE FALSE

\* SearchResult(business_name=f"{letter} ({business_type})", html_content,
\* success): the business type is the session's index in business_types.
SearchResult(letter_, btype, html, success) ==
    [some |-> TRUE, letter |-> letter_, btype |-> btype, html |-> html,
     success |-> success]

\* No result yet.
NoResult ==
    [some |-> FALSE, letter |-> <<>>, btype |-> 0, html |-> "blank",
     success |-> FALSE]

\* Line 319 with the second marker of lines 222 and 249 honoured too.
StatusBothMarkers(r) ==
    IF ~r.success THEN "Error"
    ELSE IF ~Contains(r.html, "No results found")
            /\ ~Contains(r.html, "No matches found")
         THEN "Found"
         ELSE "No Data"

\* Lines 319-320.
Status(r) ==
    IF ~r.success THEN "Error"
    ELSE IF r.success /\ ~Contains(r.html, "No results found") THEN "Found"
    ELSE "No Data"

VARIABLES
    term,         \* enumerator specification: the term advanced from
    sat,          \* enumerator specification: the classification given
    next,         \* enumerator specification: the term advanced to
    epc,          \* enumerator specification: "in" before, "out" after
    pc,           \* session: where process_business_type_session is
    page,         \* session: "none", "open" or "closed"
    closes,       \* session: calls of page.close()
    attempt,      \* session: business-type attempts made (line 157)
    search_word,  \* session: the enumerator's list (line 189)
    letter,       \* session: the term of the current iteration (line 191)
    delivered,    \* session: the last result result_callback returned for
    advances,     \* session: advances of search_word made, exact below CountCap
    page_size_tries, \* session: entries of the page-size block (line 229)
    pending,      \* session: the saturated terms and the extensions of
                  \* each that have been searched since
    browser_pool_size, \* scraper: the browsers start() launches (line 54)
    orch,         \* process_non_profits: "gather", "completed" or "failed"
    file_lock,    \* sink: 0 when free, else the delivery holding it
    report,       \* sink: the lines appended to the report file
    snapshots,    \* sink: the raw snapshot files written
    wpc,          \* sink: where each delivery is in save_result
    res           \* sink: the result each delivery was called with

enumVars == <<term, sat, next, epc>>
sessVars == <<pc, page, closes, attempt, search_word, letter, delivered, advances,
             page_size_tries, pending, browser_pool_size>>
sinkVars == <<file_lock, report, snapshots, wpc, res>>
vars == <<enumVars, sessVars, orch, sinkVars>>

Writers == 1..NumWriters

InitEnumIdle ==
    /\ term = <<OrdA>>
    /\ sat = FALSE
    /\ next = <<>>
    /\ epc = "in"

InitSessions ==
    /\ pc = [s \in Sessions |-> "delay"]
    /\ page = [s \in Sessions |-> "none"]
    /\ closes = [s \in Sessions |-> 0]
    /\ attempt = [s \in Sessions |-> 0]
    /\ search_word = [s \in Sessions |-> <<>>]
    /\ letter = [s \in Sessions |-> <<>>]
    /\ delivered = [s \in Sessions |-> NoResult]
    /\ advances = [s \in Sessions |-> 0]
    /\ page_size_tries = [s \in Sessions |-> 0]
    /\ pending = [s \in Sessions |-> {}]
    /\ orch = "gather"

\* The scraper where the pool is of no account: no session runs, or only
\* session 0, which takes context 0 of a pool of any size (line 100).
OneBrowser == browser_pool_size = 1

\* A line of the report: who wrote it, what it is, and for a Status line
\* the status.
Line(w, kind, val) == [w |-> w, kind |-> kind, val |-> val]

\* Lines 382-384: the report starts with its title and a rule.
ReportHeader == <<Line(0, "title", ""), Line(0, "rule", "")>>

InitSinkIdle ==
    /\ file_lock = 0
    /\ report = ReportHeader
    /\ snapshots = {}
    /\ wpc = [w \in Writers |-> "done"]
    /\ res = [w \in Writers |-> NoResult]

(***************************************************************************)
(* The enumerator alone: every term up to EnumLen letters, either          *)
(* classification, one advance.                                            *)
(***************************************************************************)
InitEnum ==
    /\ term \in Terms(EnumLen)
    /\ sat = FALSE
    /\ next = <<>>
    /\ epc = "in"
    /\ InitSessions
    /\ OneBrowser
    /\ InitSinkIdle

EnumAdvance ==
    /\ epc = "in"
    /\ \E b \in BOOLEAN :
        /\ sat' = b
        /\ next' = Advance(term, b)
    /\ epc' = "out"
    /\ UNCHANGED <<term, sessVars, orch, sinkVars>>

NextEnum == EnumAdvance

SpecEnum == InitEnum /\ [][NextEnum]_vars

\* Line 66: contexts_per_browser = max(1, max_concurrent // browser_pool_size).
contexts_per_browser ==
    IF MAX_CONCURRENT \div browser_pool_size > 1
        THEN MAX_CONCURRENT \div browser_pool_size
        ELSE 1

\* Lines 54-85: len(context_pool) once start() has run, one context per
\* browser and round of the inner loop.
context_pool_len == browser_pool_size * contexts_per_browser

\* Lines 100 and 393: session i takes context_pool[i % len(context_pool)].
context(s) == s % context_pool_len

(***************************************************************************)
(* process_business_type_session, one session s per business type.        *)
(* pc: "delay"    before the start delay has passed and the page is opened *)
(*     "goto"     page open, before page.goto                              *)
(*     "register" before the register selection                            *)
(*     "type"     in the for loop that looks for the business type         *)
(*     "loop"     at the while test of the search loop                     *)
(*     "searched" the term is submitted, the page not yet captured         *)
(*     "handler"  in the except block of the iteration (lines 283-287)     *)
(*     "done"     the while loop ended and the coroutine returned          *)
(*     "aborted"  a return of the setup (lines 152, 169, 172)              *)
(*     "raised"   an exception left the coroutine                          *)
(*     "cancelled" the task was cancelled                                  *)
(***************************************************************************)
Finished(s) == pc[s] \in {"done", "aborted", "raised", "cancelled"}
Returned(s) == pc[s] \in {"done", "aborted"}

\* A slip: the exit leaves the coroutine without running the finally block.
LeaveNoClose(s, how) ==
    /\ pc' = [pc EXCEPT ![s] = how]
    /\ UNCHANGED <<page, closes>>

\* Lines 289-291: every exit from the try block runs page.close().
Leave(s, how) ==
    /\ pc' = [pc EXCEPT ![s] = how]
    /\ page' = [page EXCEPT ![s] = "closed"]
    /\ closes' = [closes EXCEPT ![s] = @ + 1]

\* Lines 95-101: the start delay passes and the page is opened.
StartSession(s) ==
    /\ pc[s] = "delay"
    /\ pc' = [pc EXCEPT ![s] = "goto"]
    /\ page' = [page EXCEPT ![s] = "open"]
    /\ UNCHANGED <<closes, attempt, search_word, letter, delivered, advances,
                   page_size_tries, pending>>
    /\ UNCHANGED <<browser_pool_size, enumVars, orch, sinkVars>>

\* Line 101: context.new_page() raises, outside the try block.
NewPageFails(s) ==
    /\ pc[s] = "delay"
    /\ pc' = [pc EXCEPT ![s] = "raised"]
    /\ UNCHANGED <<page, closes, attempt, search_word, letter, delivered, advances,
                   page_size_tries, pending>>
    /\ UNCHANGED <<browser_pool_size, enumVars, orch, sinkVars>>

\* Lines 118-143: navigation; the cookie banner and the Advanced toggle are
\* best effort and change nothing the session keeps.
Navigate(s) ==
    /\ pc[s] = "goto"
    /\ pc' = [pc EXCEPT ![s] = "register"]
    /\ UNCHANGED <<page, closes, attempt, search_word, letter, delivered, advances,
                   page_size_tries, pending>>
    /\ UNCHANGED <<browser_pool_size, enumVars, orch, sinkVars>>

\* Line 120: page.goto raises; no except clause of the try block at line 103
\* catches it.
NavigateFails(s) ==
    /\ pc[s] = "goto"
    /\ Leave(s, "raised")
    /\ UNCHANGED <<attempt, search_word, letter, delivered, advances,
                   page_size_tries, pending>>
    /\ UNCHANGED <<browser_pool_size, enumVars, orch, sinkVars>>

\* Lines 146-149: the register is set to Corporations.
SelectRegister(s) ==
    /\ pc[s] = "register"
    /\ pc' = [pc EXCEPT ![s] = "type"]
    /\ attempt' = [attempt EXCEPT ![s] = 0]
    /\ UNCHANGED <<page, closes, search_word, letter, delivered, advances,
                   page_size_tries, pending>>
    /\ UNCHANGED <<browser_pool_size, enumVars, orch, sinkVars>>

\* Lines 150-152: #SourceAppCode is absent or cannot be set: return.
RegisterFails(s) ==
    /\ pc[s] = "register"
    /\ Leave(s, "aborted")
    /\ UNCHANGED <<attempt, search_word, letter, delivered, advances,
                   page_size_tries, pending>>
    /\ UNCHANGED <<browser_pool_size, enumVars, orch, sinkVars>>

\* Lines 157-165: the option is not in the dropdown on this attempt.
TypeMissing(s) ==
    /\ pc[s] = "type"
    /\ attempt[s] < MaxTypeAttempts
    /\ attempt' = [attempt EXCEPT ![s] = @ + 1]
    /\ UNCHANGED <<pc, page, closes, search_word, letter, delivered, advances,
                   page_size_tries, pending>>
    /\ UNCHANGED <<browser_pool_size, enumVars, orch, sinkVars>>

\* Lines 158-164 and 174-189: the option is found and selected, the status
\* filter is set (best effort) and search_word = ['a']. attempt is not read
\* after the for loop and is cleared here.
TypeFound(s) ==
    /\ pc[s] = "type"
    /\ attempt[s] < MaxTypeAttempts
    /\ pc' = [pc EXCEPT ![s] = "loop"]
    /\ attempt' = [attempt EXCEPT ![s] = 0]
    /\ search_word' = [search_word EXCEPT ![s] = <<OrdA>>]
    /\ UNCHANGED <<page, closes, letter, delivered, advances,
                   page_size_tries, pending>>
    /\ UNCHANGED <<browser_pool_size, enumVars, orch, sinkVars>>

\* Lines 170-172: a call of the attempt raises: return.
TypeRaises(s) ==
    /\ pc[s] = "type"
    /\ attempt[s] < MaxTypeAttempts
    /\ Leave(s, "aborted")
    /\ UNCHANGED <<attempt, search_word, letter, delivered, advances,
                   page_size_tries, pending>>
    /\ UNCHANGED <<browser_pool_size, enumVars, orch, sinkVars>>

\* A slip: the session goes on to the search loop without the filter.
TypeGiveUpAndSearch(s) ==
    /\ pc[s] = "type"
    /\ attempt[s] = MaxTypeAttempts
    /\ pc' = [pc EXCEPT ![s] = "loop"]
    /\ search_word' = [search_word EXCEPT ![s] = <<OrdA>>]
    /\ UNCHANGED <<page, closes, attempt, letter, delivered, advances,
                   page_size_tries, pending>>
    /\ UNCHANGED <<browser_pool_size, enumVars, orch, sinkVars>>

\* Lines 167-169: the for loop ended with found_type False: return.
TypeGiveUp(s) ==
    /\ pc[s] = "type"
    /\ attempt[s] = MaxTypeAttempts
    /\ Leave(s, "aborted")
    /\ UNCHANGED <<attempt, search_word, letter, delivered, advances,
                   page_size_tries, pending>>
    /\ UNCHANGED <<browser_pool_size, enumVars, orch, sinkVars>>

\* The advance counter, exact below CountCap.
Count(n) == IF n < CountCap THEN n + 1 ELSE n

\* Line 229: the page-size block is entered when the term is 'a'; the
\* entries are counted exactly below TriesCap.
PageSizeTries(n, w) ==
    IF w = <<OrdA>> /\ n < TriesCap THEN n + 1 ELSE n

\* The term one letter shorter.
Parent(u) == SubSeq(u, 1, Len(u) - 1)

\* Line 207-213 seen from outside: the term u has been searched, so its
\* last letter is recorded with its parent if the parent is a saturated
\* term on record.
MarkSearched(P, u) ==
    { IF Len(u) > 1 /\ e.t = Parent(u)
          THEN [e EXCEPT !.seen = @ \cup {u[Len(u)]}]
          ELSE e : e \in P }

\* Lines 259-275 seen from outside: the term t has been classified and the
\* list is now w; a saturated t goes on record with no extension searched,
\* and a record leaves once all its extensions have been searched and the
\* list is outside it.
Classified(P, t, saturated, w) ==
    LET Q == IF saturated THEN P \cup {[t |-> t, seen |-> {}]} ELSE P
    IN  { e \in Q : e.seen # Letters \/ IsStrictPrefix(e.t, w) }

\* A slip: the iteration runs without the while test.
SubmitNoTest(s) ==
    /\ pc[s] = "loop"
    /\ letter' = [letter EXCEPT ![s] = Join(search_word[s])]
    /\ page_size_tries' = [page_size_tries EXCEPT
                               ![s] = PageSizeTries(@, search_word[s])]
    /\ pending' = [pending EXCEPT ![s] = MarkSearched(@, search_word[s])]
    /\ pc' = [pc EXCEPT ![s] = "searched"]
    /\ UNCHANGED <<page, closes, attempt, search_word, delivered, advances>>
    /\ UNCHANGED <<browser_pool_size, enumVars, orch, sinkVars>>

\* Lines 190-242: the while test holds, letter is the joined list, the term
\* is filled in and the search is triggered; the wait for the results may
\* time out and the page-size change (for 'a') may fail, both without effect
\* on what the session keeps.
Submit(s) ==
    /\ pc[s] = "loop"
    /\ Len(search_word[s]) > 0
    /\ letter' = [letter EXCEPT ![s] = Join(search_word[s])]
    /\ page_size_tries' = [page_size_tries EXCEPT
                               ![s] = PageSizeTries(@, search_word[s])]
    /\ pending' = [pending EXCEPT ![s] = MarkSearched(@, search_word[s])]
    /\ pc' = [pc EXCEPT ![s] = "searched"]
    /\ UNCHANGED <<page, closes, attempt, search_word, delivered, advances>>
    /\ UNCHANGED <<browser_pool_size, enumVars, orch, sinkVars>>

\* A slip: the failed term is skipped before the except block is reached.
SubmitFailsSkips(s) ==
    /\ pc[s] = "loop"
    /\ Len(search_word[s]) > 0
    /\ letter' = [letter EXCEPT ![s] = Join(search_word[s])]
    /\ search_word' = [search_word EXCEPT ![s] = Increment(@)]
    /\ pc' = [pc EXCEPT ![s] = "handler"]
    /\ UNCHANGED <<page, closes, attempt, delivered, advances,
                   page_size_tries, pending>>
    /\ UNCHANGED <<browser_pool_size, enumVars, orch, sinkVars>>

\* Lines 194-213 and 283: page.content(), fill or click raises.
SubmitFails(s) ==
    /\ pc[s] = "loop"
    /\ Len(search_word[s]) > 0
    /\ letter' = [letter EXCEPT ![s] = Join(search_word[s])]
    /\ pc' = [pc EXCEPT ![s] = "handler"]
    /\ UNCHANGED <<page, closes, attempt, search_word, delivered, advances,
                   page_size_tries, pending>>
    /\ UNCHANGED <<browser_pool_size, enumVars, orch, sinkVars>>

\* A slip: the result is built after the advance, from the advanced list.
CaptureAfterAdvance(s, kinds) ==
    /\ pc[s] = "searched"
    /\ \E html \in kinds :
        /\ html = "full" => Len(search_word[s]) < MaxLen
        /\ search_word' = [search_word EXCEPT
                              ![s] = Advance(@, businesses_count_200(html))]
        /\ pending' = [pending EXCEPT
                          ![s] = Classified(@, letter[s],
                                            businesses_count_200(html),
                                            search_word'[s])]
        /\ delivered' = [delivered EXCEPT
                            ![s] = SearchResult(Join(search_word'[s]), s,
                                                html, TRUE)]
    /\ advances' = [advances EXCEPT ![s] = Count(@)]
    /\ pc' = [pc EXCEPT ![s] = "loop"]
    /\ UNCHANGED <<page, closes, attempt, letter, page_size_tries>>
    /\ UNCHANGED <<browser_pool_size, enumVars, orch, sinkVars>>

\* A slip: the iteration ends without awaiting result_callback.
CaptureNoDelivery(s, kinds) ==
    /\ pc[s] = "searched"
    /\ \E html \in kinds :
        /\ html = "full" => Len(search_word[s]) < MaxLen
        /\ search_word' = [search_word EXCEPT
                              ![s] = Advance(@, businesses_count_200(html))]
        /\ pending' = [pending EXCEPT
                          ![s] = Classified(@, letter[s],
                                            businesses_count_200(html),
                                            search_word'[s])]
    /\ advances' = [advances EXCEPT ![s] = Count(@)]
    /\ pc' = [pc EXCEPT ![s] = "loop"]
    /\ UNCHANGED <<page, closes, attempt, letter, delivered, page_size_tries>>
    /\ UNCHANGED <<browser_pool_size, enumVars, orch, sinkVars>>

\* A slip: the classification is honoured for the first term 'a' only.
CaptureFirstOnly(s, kinds) ==
    /\ pc[s] = "searched"
    /\ \E html \in kinds :
        LET saturated == letter[s] = <<OrdA>> /\ businesses_count_200(html)
        IN  /\ html = "full" => Len(search_word[s]) < MaxLen
            /\ search_word' = [search_word EXCEPT
                                  ![s] = Advance(@, saturated)]
            /\ pending' = [pending EXCEPT
                              ![s] = Classified(@, letter[s], saturated,
                                                search_word'[s])]
            /\ delivered' = [delivered EXCEPT
                                ![s] = SearchResult(letter[s], s, html, TRUE)]
    /\ advances' = [advances EXCEPT ![s] = Count(@)]
    /\ pc' = [pc EXCEPT ![s] = "loop"]
    /\ UNCHANGED <<page, closes, attempt, letter, page_size_tries>>
    /\ UNCHANGED <<browser_pool_size, enumVars, orch, sinkVars>>

\* A slip: a page with a no-results marker is delivered as a failure.
CaptureEmptyAsFailure(s, kinds) ==
    /\ pc[s] = "searched"
    /\ \E html \in kinds :
        /\ html = "full" => Len(search_word[s]) < MaxLen
        /\ search_word' = [search_word EXCEPT
                              ![s] = Advance(@, businesses_count_200(html))]
        /\ pending' = [pending EXCEPT
                          ![s] = Classified(@, letter[s],
                                            businesses_count_200(html),
                                            search_word'[s])]
        /\ delivered' = [delivered EXCEPT
                            ![s] = SearchResult(letter[s], s, html,
                                       ~Contains(html, "No results found")
                                       /\ ~Contains(html, "No matches found"))]
    /\ advances' = [advances EXCEPT ![s] = Count(@)]
    /\ pc' = [pc EXCEPT ![s] = "loop"]
    /\ UNCHANGED <<page, closes, attempt, letter, page_size_tries>>
    /\ UNCHANGED <<browser_pool_size, enumVars, orch, sinkVars>>

\* A slip: after a timed-out wait the page is delivered and the same term
\* is kept for the next iteration.
CaptureKeepsBlankTerm(s, kinds) ==
    /\ pc[s] = "searched"
    /\ \E html \in kinds :
        /\ html = "full" => Len(search_word[s]) < MaxLen
        /\ search_word' = [search_word EXCEPT
                              ![s] = IF html = "blank" THEN @
                                     ELSE Advance(@, businesses_count_200(html))]
        /\ pending' = [pending EXCEPT
                          ![s] = Classified(@, letter[s],
                                            businesses_count_200(html),
                                            search_word'[s])]
        /\ delivered' = [delivered EXCEPT
                            ![s] = SearchResult(letter[s], s, html, TRUE)]
    /\ advances' = [advances EXCEPT ![s] = Count(@)]
    /\ pc' = [pc EXCEPT ![s] = "loop"]
    /\ UNCHANGED <<page, closes, attempt, letter, page_size_tries>>
    /\ UNCHANGED <<browser_pool_size, enumVars, orch, sinkVars>>

\* Lines 244-281: the page is captured (one of kinds; a full page only for
\* a term shorter than MaxLen), the result is built with success True, the
\* page is classified, search_word is advanced, the callback is awaited and
\* returns, and the session sleeps before the next while test.
Capture(s, kinds) ==
    /\ pc[s] = "searched"
    /\ \E html \in kinds :
        /\ html = "full" => Len(search_word[s]) < MaxLen
        /\ search_word' = [search_word EXCEPT
                              ![s] = Advance(@, businesses_count_200(html))]
        /\ pending' = [pending EXCEPT
                          ![s] = Classified(@, letter[s],
                                            businesses_count_200(html),
                                            search_word'[s])]
        /\ delivered' = [delivered EXCEPT
                            ![s] = SearchResult(letter[s], s, html, TRUE)]
    /\ advances' = [advances EXCEPT ![s] = Count(@)]
    /\ pc' = [pc EXCEPT ![s] = "loop"]
    /\ UNCHANGED <<page, closes, attempt, letter, page_size_tries>>
    /\ UNCHANGED <<browser_pool_size, enumVars, orch, sinkVars>>

\* Lines 245 and 283: page.content() raises after the search.
CaptureFails(s) ==
    /\ pc[s] = "searched"
    /\ pc' = [pc EXCEPT ![s] = "handler"]
    /\ UNCHANGED <<page, closes, attempt, search_word, letter, delivered, advances,
                   page_size_tries, pending>>
    /\ UNCHANGED <<browser_pool_size, enumVars, orch, sinkVars>>

\* Lines 244-278 and 283: as Capture, but result_callback raises; the
\* advance of line 269-275 has been made by then.
CallbackFails(s, kinds) ==
    /\ pc[s] = "searched"
    /\ \E html \in kinds :
        /\ html = "full" => Len(search_word[s]) < MaxLen
        /\ search_word' = [search_word EXCEPT
                              ![s] = Advance(@, businesses_count_200(html))]
        /\ pending' = [pending EXCEPT
                          ![s] = Classified(@, letter[s],
                                            businesses_count_200(html),
                                            search_word'[s])]
    /\ advances' = [advances EXCEPT ![s] = Count(@)]
    /\ pc' = [pc EXCEPT ![s] = "handler"]
    /\ UNCHANGED <<page, closes, attempt, letter, delivered, page_size_tries>>
    /\ UNCHANGED <<browser_pool_size, enumVars, orch, sinkVars>>

\* Lines 284-287: the error is logged, the session sleeps and the while
\* test is next.
Handler(s) ==
    /\ pc[s] = "handler"
    /\ pc' = [pc EXCEPT ![s] = "loop"]
    /\ UNCHANGED <<page, closes, attempt, search_word, letter, delivered, advances,
                   page_size_tries, pending>>
    /\ UNCHANGED <<browser_pool_size, enumVars, orch, sinkVars>>

\* Line 190 with an empty list, then lines 289-291.
LoopExit(s) ==
    /\ pc[s] = "loop"
    /\ Len(search_word[s]) = 0
    /\ Leave(s, "done")
    /\ UNCHANGED <<attempt, search_word, letter, delivered, advances,
                   page_size_tries, pending>>
    /\ UNCHANGED <<browser_pool_size, enumVars, orch, sinkVars>>

\* The task is cancelled at its current await once process_non_profits has
\* failed (asyncio.run cancels the tasks still pending): CancelledError is
\* no Exception, so only the finally block runs, if the try was entered.
Cancel(s) ==
    /\ orch = "failed"
    /\ ~Finished(s)
    /\ IF page[s] = "open"
       THEN Leave(s, "cancelled")
       ELSE /\ pc' = [pc EXCEPT ![s] = "cancelled"]
            /\ UNCHANGED <<page, closes>>
    /\ UNCHANGED <<attempt, search_word, letter, delivered, advances,
                   page_size_tries, pending>>
    /\ UNCHANGED <<browser_pool_size, enumVars, orch, sinkVars>>

(***************************************************************************)
(* process_non_profits, lines 386-397: the sessions are gathered.          *)
(***************************************************************************)
\* A slip: gather is left when the first session has returned.
GatherReturnsFirst ==
    /\ orch = "gather"
    /\ \E s \in Sessions : Returned(s)
    /\ orch' = "completed"
    /\ UNCHANGED <<enumVars, sessVars, sinkVars>>

\* Line 395: every session has returned; the run completes (line 397).
GatherReturns ==
    /\ orch = "gather"
    /\ \A s \in Sessions : Returned(s)
    /\ orch' = "completed"
    /\ UNCHANGED <<enumVars, sessVars, sinkVars>>

\* Line 395: gather is called without return_exceptions, so the first
\* exception of a session is raised from it and process_non_profits fails
\* (lines 404-407).
GatherRaises ==
    /\ orch = "gather"
    /\ \E s \in Sessions : pc[s] = "raised"
    /\ orch' = "failed"
    /\ UNCHANGED <<enumVars, sessVars, sinkVars>>

InitIdle ==
    /\ InitEnumIdle
    /\ InitSessions
    /\ OneBrowser
    /\ InitSinkIdle

\* Line 387: the scraper of a run of all the sessions, with any number of
\* browsers up to MaxBrowsers.
InitOrch ==
    /\ InitEnumIdle
    /\ InitSessions
    /\ browser_pool_size \in 1..MaxBrowsers
    /\ InitSinkIdle

\* The first session: its start delay is 0; the others' are 7,000,000 s and
\* 14,000,000 s (line 392).
FirstSession == {0}

\* One session, the registry never returning a full page and no call
\* raising.
NextSweep ==
    \E s \in FirstSession :
        \/ StartSession(s)
        \/ Navigate(s)
        \/ SelectRegister(s)
        \/ TypeMissing(s)
        \/ TypeFound(s)
        \/ TypeGiveUp(s)
        \/ Submit(s)
        \/ Capture(s, UnsaturatedPages)
        \/ LoopExit(s)

SpecSweep == InitIdle /\ [][NextSweep]_vars

\* One session, every outcome of every step but a raising callback.
NextSession ==
    \E s \in FirstSession :
        \/ StartSession(s)
        \/ NewPageFails(s)
        \/ Navigate(s)
        \/ NavigateFails(s)
        \/ SelectRegister(s)
        \/ RegisterFails(s)
        \/ TypeMissing(s)
        \/ TypeFound(s)
        \/ TypeRaises(s)
        \/ TypeGiveUp(s)
        \/ Submit(s)
        \/ SubmitFails(s)
        \/ Capture(s, PageKinds)
        \/ CaptureFails(s)
        \/ Handler(s)
        \/ LoopExit(s)

SpecSession == InitIdle /\ [][NextSession]_vars

\* One session whose callback may raise too, the registry never returning
\* a full page.
NextCallback ==
    \E s \in FirstSession :
        \/ StartSession(s)
        \/ Navigate(s)
        \/ SelectRegister(s)
        \/ TypeFound(s)
        \/ Submit(s)
        \/ SubmitFails(s)
        \/ Capture(s, UnsaturatedPages)
        \/ CaptureFails(s)
        \/ CallbackFails(s, UnsaturatedPages)
        \/ Handler(s)
        \/ LoopExit(s)

SpecCallback == InitIdle /\ [][NextCallback]_vars

\* The pages of the orchestration specification.
OrchPages == {"results"}

\* All sessions and the gather; the steps of an iteration do not raise and
\* the registry answers every search with a page of results that is not
\* full.
NextOrch ==
    \/ \E s \in Sessions :
        \/ StartSession(s)
        \/ NewPageFails(s)
        \/ Navigate(s)
        \/ NavigateFails(s)
        \/ SelectRegister(s)
        \/ RegisterFails(s)
        \/ TypeMissing(s)
        \/ TypeFound(s)
        \/ TypeRaises(s)
        \/ TypeGiveUp(s)
        \/ Submit(s)
        \/ Capture(s, OrchPages)
        \/ LoopExit(s)
        \/ Cancel(s)
    \/ GatherReturns
    \/ GatherRaises

SpecOrch == InitOrch /\ [][NextOrch]_vars

\* One session in which no call raises: every page kind, a full page for
\* terms shorter than MaxLen only, and the event loop resuming the session
\* whenever the call it awaits has returned.
NextFamily ==
    \E s \in FirstSession :
        \/ StartSession(s)
        \/ Navigate(s)
        \/ SelectRegister(s)
        \/ TypeMissing(s)
        \/ TypeFound(s)
        \/ TypeGiveUp(s)
        \/ Submit(s)
        \/ Capture(s, PageKinds)
        \/ LoopExit(s)

SpecFamily == InitIdle /\ [][NextFamily]_vars /\ WF_vars(NextFamily)

(***************************************************************************)
(* save_result, lines 316-379: NumWriters deliveries, each called with a   *)
(* result of its own session. The writes are taken in three steps between  *)
(* which another delivery may run; only file_lock keeps them apart.        *)
(* wpc: "call" before the lock is held, "head", "body", "tail" while the   *)
(* record is written, "done" after the lock is released.                   *)
(***************************************************************************)
InitSink ==
    /\ InitEnumIdle
    /\ InitSessions
    /\ OneBrowser
    /\ file_lock = 0
    /\ report = ReportHeader
    /\ snapshots = {}
    /\ wpc = [w \in Writers |-> "call"]
    /\ \E html \in [Writers -> PageKinds], success \in [Writers -> BOOLEAN] :
           res = [w \in Writers |->
                     SearchResult(<<OrdA>>, w - 1, html[w], success[w])]

\* res.business_name, from which the snapshot's file name is made (line 331).
NameOf(w) == <<res[w].letter, res[w].btype>>

\* A slip: the lock is taken without waiting for its holder.
AcquireNoWait(w) ==
    /\ wpc[w] = "call"
    /\ file_lock' = w
    /\ wpc' = [wpc EXCEPT ![w] = "head"]
    /\ UNCHANGED <<report, snapshots, res>>
    /\ UNCHANGED <<enumVars, sessVars, orch>>

\* Line 317: async with file_lock, entered when the lock is free.
Acquire(w) ==
    /\ wpc[w] = "call"
    /\ file_lock = 0
    /\ file_lock' = w
    /\ wpc' = [wpc EXCEPT ![w] = "head"]
    /\ UNCHANGED <<report, snapshots, res>>
    /\ UNCHANGED <<enumVars, sessVars, orch>>

\* Lines 318-327: the status is computed and the head of the record is
\* appended.
WriteHead(w) ==
    /\ wpc[w] = "head"
    /\ report' = report \o <<Line(w, "SEARCH", ""), Line(w, "dashes", ""),
                             Line(w, "Status", Status(res[w])),
                             Line(w, "Time", "")>>
    /\ wpc' = [wpc EXCEPT ![w] = "body"]
    /\ UNCHANGED <<file_lock, snapshots, res>>
    /\ UNCHANGED <<enumVars, sessVars, orch>>

\* Lines 329-377: for a successful result the raw snapshot is written and
\* named in the report and, without the no-results marker, the result
\* blocks are listed (or the parse error is, lines 374-375); for a failed
\* result the error message is appended.
WriteBody(w) ==
    /\ wpc[w] = "body"
    /\ IF res[w].success
       THEN /\ snapshots' = snapshots \cup {NameOf(w)}
            /\ IF ~Contains(res[w].html, "No results found")
               THEN \E parsed \in {"Results Found", "Error parsing HTML"} :
                        report' = report \o <<Line(w, "Saved HTML", ""),
                                              Line(w, parsed, "")>>
               ELSE report' = Append(report, Line(w, "Saved HTML", ""))
       ELSE /\ report' = Append(report, Line(w, "Error", ""))
            /\ UNCHANGED snapshots
    /\ wpc' = [wpc EXCEPT ![w] = "tail"]
    /\ UNCHANGED <<file_lock, res>>
    /\ UNCHANGED <<enumVars, sessVars, orch>>

\* Line 379 and the exits of the two with blocks: the separator is
\* appended, the file closed and the lock released.
WriteTail(w) ==
    /\ wpc[w] = "tail"
    /\ report' = Append(report, Line(w, "separator", ""))
    /\ file_lock' = 0
    /\ wpc' = [wpc EXCEPT ![w] = "done"]
    /\ UNCHANGED <<snapshots, res>>
    /\ UNCHANGED <<enumVars, sessVars, orch>>

NextSink ==
    \E w \in Writers :
        \/ Acquire(w)
        \/ WriteHead(w)
        \/ WriteBody(w)
        \/ WriteTail(w)

SpecSink == InitSink /\ [][NextSink]_vars

(***************************************************************************)
(* The enumerator (SpecEnum).                                              *)
(***************************************************************************)

\* C1: after an advance of a term classified as saturated, the next term
\* is one letter longer than the term, ends in 'a' and has the term as a
\* strict prefix.
C1_DescentStep ==
    (epc = "out" /\ sat) =>
        /\ Len(next) = Len(term) + 1
        /\ next[Len(next)] = OrdA
        /\ IsStrictPrefix(term, next)

C1_Witness ==
    /\ epc = "out"
    /\ sat
    /\ term = <<OrdA>>
    /\ next = <<OrdA, OrdA>>

\* C2: an advance of a term classified as not saturated yields the empty
\* sequence or a term strictly greater in alphabetic order, and it yields
\* the empty sequence exactly when every letter of the term is 'z'.
C2_MonotonicProgression ==
    (epc = "out" /\ ~sat) =>
        /\ next = <<>> \/ LexLess(term, next)
        /\ next = <<>> <=> AllZ(term)

C2_Witness ==
    /\ epc = "out"
    /\ ~sat
    /\ term = <<OrdZ, OrdZ>>
    /\ next = <<>>

\* The number of 'z' letters the term ends in.
TrailingZ(w) ==
    CHOOSE k \in 0..Len(w) :
        /\ \A j \in (Len(w) - k + 1)..Len(w) : w[j] = OrdZ
        /\ k < Len(w) => w[Len(w) - k] # OrdZ

\* C3: for a term p + c + 'z'*k with c not 'z', an advance classified as
\* not saturated yields p + next(c): the k trailing 'z' are gone, the
\* prefix p is kept and c is replaced by the letter after it.
C3_IncrementWithCarry ==
    (epc = "out" /\ ~sat /\ ~AllZ(term)) =>
        LET k == TrailingZ(term)
            i == Len(term) - k
        IN /\ next = Append(SubSeq(term, 1, i - 1), term[i] + 1)
           /\ term[i] + 1 \in Letters

C3_Witness ==
    /\ epc = "out"
    /\ ~sat
    /\ term = <<OrdA, OrdZ>>
    /\ next = <<OrdA + 1>>

(***************************************************************************)
(* The search loop with no full page and no exception (SpecSweep).         *)
(***************************************************************************)

\* The letters of the alphabet: 26.
AlphabetSize == OrdZ - OrdA + 1

\* C4: with no term classified as saturated and no exception, the k-th
\* term searched is the k-th letter, and the loop ends after exactly 26
\* advances, the last from "z" to the empty sequence.
C4_SweepAToZ ==
    \A s \in FirstSession :
        /\ (pc[s] \in {"loop", "searched"} /\ search_word[s] # <<>>) =>
               /\ search_word[s] = <<OrdA + advances[s]>>
               /\ advances[s] < AlphabetSize
        /\ pc[s] = "searched" => letter[s] = search_word[s]
        /\ (pc[s] \in {"loop", "done"} /\ search_word[s] = <<>>) =>
               /\ advances[s] = AlphabetSize
               /\ letter[s] = <<OrdZ>>
               /\ delivered[s].letter = <<OrdZ>>
        /\ pc[s] = "done" => search_word[s] = <<>>

C4_Witness ==
    /\ pc[0] = "done"
    /\ advances[0] = AlphabetSize
    /\ letter[0] = <<OrdZ>>

(***************************************************************************)
(* One session, every outcome (SpecSession).                               *)
(***************************************************************************)
InLoop(s) == pc[s] \in {"loop", "searched", "handler"}

WellFormed(w) == \A i \in 1..Len(w) : w[i] \in Letters

\* C5: the term submitted to the search field is never empty and holds
\* letters 'a'..'z' only; the list is empty only when no search follows,
\* and then the last term searched was made of 'z' letters only.
C5_TermsWellFormed ==
    \A s \in Sessions :
        /\ WellFormed(search_word[s])
        /\ pc[s] = "searched" =>
               /\ letter[s] # <<>>
               /\ WellFormed(letter[s])
               /\ letter[s] = search_word[s]
        /\ (InLoop(s) /\ search_word[s] = <<>>) =>
               /\ pc[s] \in {"loop", "handler"}
               /\ letter[s] # <<>>
               /\ AllZ(letter[s])
        /\ pc[s] = "done" =>
               /\ search_word[s] = <<>>
               /\ AllZ(letter[s])

C5_Witness ==
    /\ pc[0] = "loop"
    /\ search_word[0] = <<>>
    /\ letter[0] = <<OrdZ, OrdZ>>

(***************************************************************************)
(* All sessions and the gather (SpecOrch).                                 *)
(***************************************************************************)

\* C6: a session that has finished and had opened its page has closed it,
\* by exactly one call of page.close(); a page is closed by no session
\* that is still running.
C6_PageClosedOnEveryExit ==
    \A s \in Sessions :
        /\ closes[s] <= 1
        /\ (Finished(s) /\ page[s] # "none") =>
               /\ page[s] = "closed"
               /\ closes[s] = 1
        /\ ~Finished(s) =>
               /\ page[s] # "closed"
               /\ closes[s] = 0

\* The three exits at once: exhaustion, a fatal setup failure, and a
\* navigation error, each with its page closed.
C6_Witness ==
    /\ pc[0] = "done"
    /\ pc[1] = "aborted"
    /\ pc[2] = "raised"
    /\ \A s \in Sessions : page[s] = "closed" /\ closes[s] = 1

\* What a session that never searched holds.
NothingSearched(s) ==
    /\ search_word[s] = <<>>
    /\ letter[s] = <<>>
    /\ advances[s] = 0
    /\ delivered[s] = NoResult

\* C7: a session aborted by its setup has submitted no term and delivered
\* no result; the business type is looked for at most five times, and after
\* the fifth attempt without the option the session can only abort.
C7_FatalSetupAborts ==
    /\ [](\A s \in Sessions :
            /\ pc[s] = "aborted" => NothingSearched(s)
            /\ attempt[s] <= MaxTypeAttempts)
    /\ [][\A s \in Sessions :
            (pc[s] = "type" /\ attempt[s] = MaxTypeAttempts /\ pc'[s] # "type")
            => pc'[s] = "aborted"]_vars

\* The option was missing on each of the five attempts.
C7_Witness ==
    /\ pc[0] = "aborted"
    /\ attempt[0] = MaxTypeAttempts
    /\ NothingSearched(0)
    /\ page[0] = "closed"

(***************************************************************************)
(* The sink (SpecSink).                                                    *)
(***************************************************************************)
Writing(w) == wpc[w] \in {"head", "body", "tail"}

\* The lines of the report after its header.
Records == SubSeq(report, Len(ReportHeader) + 1, Len(report))

CountOf(w, kind) ==
    Cardinality({i \in 1..Len(Records) :
                    Records[i].w = w /\ Records[i].kind = kind})

\* Every record starts after the separator of the one before it and all
\* its lines are by one delivery.
NotInterleaved ==
    \A i \in 1..Len(Records) :
        IF Records[i].kind = "SEARCH"
        THEN i > 1 => Records[i - 1].kind = "separator"
        ELSE /\ i > 1
             /\ Records[i - 1].w = Records[i].w
             /\ Records[i - 1].kind # "separator"

\* C8: at most one delivery writes at a time, and it holds the lock; the
\* lines of two records are never interleaved; once the N deliveries have
\* returned the report holds N complete records, one of each delivery.
C8_SinkMutualExclusion ==
    /\ Cardinality({w \in Writers : Writing(w)}) <= 1
    /\ \A w \in Writers : Writing(w) => file_lock = w
    /\ NotInterleaved
    /\ (\A w \in Writers : wpc[w] = "done") =>
           /\ \A w \in Writers :
                  \A kind \in {"SEARCH", "dashes", "Status", "Time", "separator"} :
                      CountOf(w, kind) = 1
           /\ Cardinality({i \in 1..Len(Records) :
                              Records[i].kind = "separator"}) = NumWriters

C8_Witness ==
    /\ \A w \in Writers : wpc[w] = "done"
    /\ Cardinality({i \in 1..Len(Records) :
                       Records[i].kind = "SEARCH"}) = NumWriters
    /\ file_lock = 0

\* C9: every Status line written is Error for a failed result, No Data for
\* a successful one holding either no-results marker, Found otherwise.
C9_SinkClassification ==
    \A i \in 1..Len(Records) :
        Records[i].kind = "Status" =>
            Records[i].val = StatusBothMarkers(res[Records[i].w])

(***************************************************************************)
(* The orchestration (SpecOrch).                                           *)
(***************************************************************************)

\* C10 as claimed: the run ends only once every session has finished, and
\* no failure of a session, a navigation error included, makes the run
\* fail or stops another session.
C10_IsolationAsClaimed ==
    /\ orch # "gather" => \A s \in Sessions : Finished(s)
    /\ orch # "failed"
    /\ \A s \in Sessions : pc[s] # "cancelled"

\* C10 amended: the run completes only once every session has returned; a
\* session that aborts its setup or exhausts its terms neither fails the
\* run nor stops another session: the run fails only when an exception has
\* left a session, and only then are the remaining sessions cancelled.
C10_IsolationOfReturns ==
    /\ orch = "completed" => \A s \in Sessions : Returned(s)
    /\ orch = "failed" => \E s \in Sessions : pc[s] = "raised"
    /\ \A s \in Sessions : pc[s] = "cancelled" => orch = "failed"
    /\ (\A s \in Sessions : pc[s] # "raised") => orch # "failed"

\* One session aborted in its setup, the others ran to exhaustion and the
\* run completed.
C10_Witness ==
    /\ orch = "completed"
    /\ pc[0] = "aborted"
    /\ pc[1] = "done"
    /\ pc[2] = "done"

(***************************************************************************)
(* C11. Per-term failures do not stall a session: when the except block    *)
(* of an iteration has caught an exception for a term, the while test that *)
(* follows finds the enumerator on a different term, so that the failed    *)
(* term is skipped and cannot be tried again and again.                    *)
(***************************************************************************)
C11_FailedTermSkipped ==
    [][\A s \in Sessions :
          (pc[s] = "handler" /\ pc'[s] = "loop")
              => search_word'[s] # letter[s]]_vars

(***************************************************************************)
(* C12. The page-size increase is attempted exactly once per session that  *)
(* enters the search loop: it has been attempted once when the first term  *)
(* has been searched, and never a second time, whatever the attempt did    *)
(* and whether or not the processing of the first term raised.             *)
(***************************************************************************)
C12_PageSizeOnce ==
    \A s \in Sessions :
        /\ page_size_tries[s] <= 1
        /\ pc[s] = "searched" => page_size_tries[s] = 1

(***************************************************************************)
(* C13. Every delivered SearchResult carries the term that was submitted   *)
(* to the registry in its iteration: the step that delivers a result       *)
(* starts with the enumerator on the submitted term, delivers a result     *)
(* with exactly that term, and leaves the enumerator on another term,      *)
(* which the result does not carry.                                        *)
(***************************************************************************)
C13_ResultCarriesSubmittedTerm ==
    [][\A s \in Sessions :
          (pc[s] = "searched" /\ pc'[s] = "loop")
              => /\ letter[s] = Join(search_word[s])
                 /\ delivered'[s].some
                 /\ delivered'[s].letter = letter[s]
                 /\ delivered'[s].letter # Join(search_word'[s])]_vars

\* The result for 'a' has been delivered and the list has descended.
C13_Witness ==
    /\ pc[0] = "loop"
    /\ delivered[0].some
    /\ delivered[0].letter = <<OrdA>>
    /\ search_word[0] = <<OrdA, OrdA>>

(***************************************************************************)
(* C14. Context partitioning: whatever the number of sessions and the size *)
(* of the context pool, no two sessions that have a page open at the same  *)
(* time took the same browser context.                                     *)
(***************************************************************************)
C14_ContextsPartitioned ==
    \A s, t \in Sessions :
        (s # t /\ page[s] = "open" /\ page[t] = "open")
            => context(s) # context(t)

C16_PrefixFamily ==
    \A s \in Sessions :
        pc[s] = "searched"
            => /\ \A e \in pending[s] :
                      e.seen # Letters => IsStrictPrefix(e.t, letter[s])
               /\ Len(letter[s]) > 1
                      => \E e \in pending[s] : e.t = Parent(letter[s])

\* 'az' has just been searched, which completes the family of the
\* saturated term 'a'.
C16_Witness ==
    /\ pc[0] = "searched"
    /\ letter[0] = <<OrdA, OrdZ>>
    /\ [t |-> <<OrdA>>, seen |-> Letters] \in pending[0]

(***************************************************************************)
(* C17 as claimed. Whenever the except block of an iteration has caught    *)
(* an exception, raised anywhere in the iteration, no SearchResult of the  *)
(* iteration's term has been delivered and the enumerator is where it was  *)
(* at the start of the iteration.                                          *)
(***************************************************************************)
C17_HandlerFindsIterationUndone ==
    \A s \in Sessions :
        pc[s] = "handler"
            => /\ Join(search_word[s]) = letter[s]
               /\ delivered[s].some => delivered[s].letter # letter[s]

(***************************************************************************)
(* C17 as amended. Whenever the except block of an iteration catches an    *)
(* exception, no SearchResult of the iteration's term has been delivered;  *)
(* the enumerator is where it was at the start of the iteration when the   *)
(* exception came before the advance, and is already advanced past the     *)
(* term when the exception came after the search, from the delivery        *)
(* callback.                                                               *)
(***************************************************************************)
C17_HandlerEffect ==
    [][\A s \in Sessions :
          (pc[s] # "handler" /\ pc'[s] = "handler")
              => /\ delivered'[s] = delivered[s]
                 /\ delivered'[s].some => delivered'[s].letter # letter'[s]
                 /\ \/ /\ search_word'[s] = search_word[s]
                       /\ Join(search_word'[s]) = letter'[s]
                    \/ /\ pc[s] = "searched"
                       /\ \E b \in BOOLEAN :
                             search_word'[s] = Advance(search_word[s], b)]_vars

\* The callback raised for 'a': the except block runs with the list on 'b'
\* and nothing delivered.
C17_Witness ==
    /\ pc[0] = "handler"
    /\ letter[0] = <<OrdA>>
    /\ search_word[0] = <<OrdA + 1>>
    /\ ~delivered[0].some

(***************************************************************************)
(* C18 as claimed. Saturation is detected only for the first term of a     *)
(* session: every advance made after the search of a later term is the     *)
(* unsaturated advance, whatever the page of that term reports, and the    *)
(* enumerator never holds a term of more than two letters.                 *)
(***************************************************************************)
C18_SaturationOnlyForFirstTerm ==
    [][\A s \in Sessions :
          (pc[s] = "searched" /\ search_word'[s] # search_word[s])
              => /\ Len(search_word'[s]) <= 2
                 /\ letter[s] # <<OrdA>>
                       => search_word'[s] = Advance(search_word[s], FALSE)]_vars

(***************************************************************************)
(* C18 as amended. Saturation is detected for every term: the step that    *)
(* delivers the result of a term, first or later, advances the enumerator  *)
(* as saturated exactly when the pager banner of that term's captured page *)
(* reports 200.                                                            *)
(***************************************************************************)
C18_SaturationDetectedForEveryTerm ==
    [][\A s \in Sessions :
          (pc[s] = "searched" /\ pc'[s] = "loop")
              => search_word'[s] =
                     Advance(search_word[s],
                             businesses_count_200(delivered'[s].html))]_vars

\* The later term 'b' had a full page and the list has descended to 'ba'.
C18_Witness ==
    /\ pc[0] = "loop"
    /\ delivered[0].some
    /\ delivered[0].letter = <<OrdA + 1>>
    /\ delivered[0].html = "full"
    /\ search_word[0] = <<OrdA + 1, OrdA>>

(***************************************************************************)
(* C19. Every SearchResult a session delivers has success = true, so that  *)
(* the sink gives it a status other than Error (lines 319-320) and, by the *)
(* test of line 329, writes its raw snapshot; and an iteration that ends   *)
(* in the except block delivers nothing.                                   *)
(***************************************************************************)
C19_DeliveredAreSuccesses ==
    /\ [](\A s \in Sessions :
             delivered[s].some
                 => /\ delivered[s].success
                    /\ Status(delivered[s]) \in {"Found", "No Data"})
    /\ [][\A s \in Sessions :
             pc'[s] = "handler" => delivered'[s] = delivered[s]]_vars

\* A page with the no-results marker was delivered as a success, which the
\* sink records as No Data.
C19_Witness ==
    /\ delivered[0].some
    /\ delivered[0].html = "noresults"
    /\ delivered[0].success
    /\ Status(delivered[0]) = "No Data"

(***************************************************************************)
(* C20. No duplicate deliveries: whatever the saturation outcomes and the  *)
(* caught exceptions, every result a session delivers is named with the    *)
(* session's own business type and with a term that is greater, in         *)
(* lexicographic order, than the term of the result the session delivered  *)
(* before it; so no term is delivered twice by a session and no snapshot   *)
(* name (business type plus term) twice in a run.                          *)
(***************************************************************************)
C20_DeliveriesIncrease ==
    [][\A s \in Sessions :
          (pc[s] = "searched" /\ pc'[s] = "loop")
              => /\ delivered'[s].btype = s
                 /\ delivered[s].some
                       => LexLess(delivered[s].letter,
                                  delivered'[s].letter)]_vars

\* 'b' has been delivered after 'a' and the 26 terms of its family.
C20_Witness ==
    /\ delivered[0].some
    /\ delivered[0].letter = <<OrdA + 1>>
    /\ advances[0] = CountCap

====
